---- MODULE Spec2Model ----
(***************************************************************************)
(* A model of the query-serving path of the search backend:                *)
(*   api.Handler.Search  ->  validateSearchInput / validatePagination      *)
(*                       ->  search.Service.Search (cache-aside on Redis,  *)
(*                           Elasticsearch query, detached write-back)     *)
(*                       ->  ip.Service.IsChinaMainland                    *)
(*                       ->  filter.Service.Filter                         *)
(* Strings are TLA+ strings of ASCII characters, one character per byte.   *)
(***************************************************************************)
EXTENDS Integers, Sequences, FiniteSets, TLC

VARIABLES
    reqs,      \* per request: the handler's position, locals and response
    wb,        \* per request: the detached cache write-back goroutine
    cache,     \* the Redis keyspace: key -> [val, ttl]
    index,     \* the Elasticsearch index "webpages", in relevance order
    returned,  \* history: key -> the hit lists the backend has answered with
    nIndexed,  \* number of IndexDocument calls so far
    call,      \* the pure function applied last, with its argument
    ret        \* and what it returned

vars == <<reqs, wb, cache, index, returned, nIndexed, call, ret>>
sysvars == <<reqs, wb, cache, index, returned, nIndexed>>

----------------------------------------------------------------------------
(* Bounds of the model *)

MaxReq == 2        \* requests served in one behaviour
MaxIndexOps == 1   \* IndexDocument calls in one behaviour
MaxRawLen == 3     \* length of the raw queries enumerated for the validator
MaxOver == 1       \* letters beyond the length limit in the long raw queries
MaxNumLen == 3     \* length of the page and size texts enumerated
MaxDocs == 3       \* length of the document sequences handed to Filter
MaxCancel == 1     \* requests whose client goes away in one behaviour
MaxKeyLen == 3     \* length of the query texts enumerated for the cache key

(* Program constants *)

MaxQueryLen == 100
MaxPageSize == 50
DefaultPage == 1
DefaultPageSize == 10
CacheTTLMinutes == 5

Notice == "NOTICE: some search results are withheld under applicable laws, regulations and policies"
InvalidQueryBody == "invalid query parameter"
InternalErrorBody == "internal server error"

----------------------------------------------------------------------------
(* Strings *)

Min(a, b) == IF a < b THEN a ELSE b

CharAt(s, i) == SubSeq(s, i, i)

\* strings.Contains
Contains(s, sub) ==
    \E i \in 0..(Len(s) - Len(sub)) : SubSeq(s, i + 1, i + Len(sub)) = sub

\* only the blank counts as white space
IsSpace_BlankOnly(c) == c = " "

\* unicode.IsSpace on the ASCII range (the vertical tab has no TLA+ escape)
IsSpace(c) == c \in {" ", "\t", "\n", "\f", "\r"}

RECURSIVE TrimLeft(_)
TrimLeft(s) ==
    IF Len(s) > 0 /\ IsSpace(CharAt(s, 1))
    THEN TrimLeft(SubSeq(s, 2, Len(s)))
    ELSE s

RECURSIVE TrimRight(_)
TrimRight(s) ==
    IF Len(s) > 0 /\ IsSpace(CharAt(s, Len(s)))
    THEN TrimRight(SubSeq(s, 1, Len(s) - 1))
    ELSE s

\* strings.TrimSpace
TrimSpace(s) == TrimRight(TrimLeft(s))

\* strings.Fields: the maximal runs of characters that are not white space
RECURSIVE Fields(_)
Fields(s) ==
    LET t == TrimLeft(s)
    IN  IF t = "" THEN <<>>
        ELSE LET stops == {k \in 1..Len(t) : IsSpace(CharAt(t, k))}
                 n     == IF stops = {} THEN Len(t)
                          ELSE (CHOOSE k \in stops : \A j \in stops : k <= j) - 1
             IN  <<SubSeq(t, 1, n)>> \o Fields(SubSeq(t, n + 1, Len(t)))

\* strings.Join
RECURSIVE Join(_, _)
Join(words, sep) ==
    IF Len(words) = 0 THEN ""
    ELSE IF Len(words) = 1 THEN words[1]
    ELSE words[1] \o sep \o Join(Tail(words), sep)

UpperLetters == "ABCDEFGHIJKLMNOPQRSTUVWXYZ"
LowerLetters == "abcdefghijklmnopqrstuvwxyz"

\* strings.ToLower on the ASCII range
RECURSIVE ToLower(_)
ToLower(s) ==
    IF Len(s) = 0 THEN ""
    ELSE LET c == CharAt(s, 1)
             u == {i \in 1..Len(UpperLetters) : CharAt(UpperLetters, i) = c}
         IN  (IF u = {} THEN c ELSE CharAt(LowerLetters, CHOOSE i \in u : TRUE))
                 \o ToLower(SubSeq(s, 2, Len(s)))

\* html.EscapeString, one character
EscapeChar(c) ==
    CASE c = "&"  -> "&amp;"
      [] c = "'"  -> "&#39;"
      [] c = "<"  -> "&lt;"
      [] c = ">"  -> "&gt;"
      [] c = "\"" -> "&#34;"
      [] OTHER    -> c

RECURSIVE EscapeString(_)
EscapeString(s) ==
    IF Len(s) = 0 THEN ""
    ELSE EscapeChar(CharAt(s, 1)) \o EscapeString(SubSeq(s, 2, Len(s)))

Digits == <<"0", "1", "2", "3", "4", "5", "6", "7", "8", "9">>
IsDigit(c) == \E d \in 1..10 : Digits[d] = c
DigitVal(c) == (CHOOSE d \in 1..10 : Digits[d] = c) - 1

RECURSIVE DigitsVal(_)
DigitsVal(s) ==
    IF Len(s) = 0 THEN 0
    ELSE 10 * DigitsVal(SubSeq(s, 1, Len(s) - 1)) + DigitVal(CharAt(s, Len(s)))

AllDigits(s) == Len(s) > 0 /\ \A i \in 1..Len(s) : IsDigit(CharAt(s, i))

\* the digits of s without its leading zeros
RECURSIVE StripZeros(_)
StripZeros(s) ==
    IF Len(s) > 1 /\ CharAt(s, 1) = "0" THEN StripZeros(SubSeq(s, 2, Len(s))) ELSE s

\* a <= b for two digit strings of one length
RECURSIVE DigitsLeq(_, _)
DigitsLeq(a, b) ==
    IF Len(a) = 0 THEN TRUE
    ELSE IF DigitVal(CharAt(a, 1)) # DigitVal(CharAt(b, 1))
         THEN DigitVal(CharAt(a, 1)) < DigitVal(CharAt(b, 1))
         ELSE DigitsLeq(SubSeq(a, 2, Len(a)), SubSeq(b, 2, Len(b)))

\* the largest magnitudes of a 64-bit int, positive and negative
MaxInt64Text == "9223372036854775807"
MinInt64Text == "9223372036854775808"

\* the digits denote a value an int holds
InInt64(neg, body) ==
    LET d == StripZeros(body)
    IN  \/ Len(d) < Len(MaxInt64Text)
        \/ /\ Len(d) = Len(MaxInt64Text)
           /\ DigitsLeq(d, IF neg THEN MinInt64Text ELSE MaxInt64Text)

\* strconv.Atoi: an optional sign and decimal digits that fit an int, anything
\* else an error
Atoi(s) ==
    LET signed == Len(s) > 0 /\ CharAt(s, 1) \in {"+", "-"}
        neg    == signed /\ CharAt(s, 1) = "-"
        body   == IF signed THEN SubSeq(s, 2, Len(s)) ELSE s
    IN  IF ~AllDigits(body) THEN [ok |-> FALSE, val |-> 0]
        ELSE IF ~InInt64(neg, body) THEN [ok |-> FALSE, val |-> 0]
        ELSE [ok |-> TRUE,
              val |-> IF neg THEN 0 - DigitsVal(body) ELSE DigitsVal(body)]

\* Go's int of 64 bits: four limbs of 16 bits, the least significant first, in
\* two's complement
LimbBase == 65536
IntLimbs == 4

\* the limbs of w * k + c, one limb more than w has
RECURSIVE MulAdd(_, _, _)
MulAdd(w, k, c) ==
    IF Len(w) = 0 THEN <<c>>
    ELSE <<(Head(w) * k + c) % LimbBase>>
             \o MulAdd(Tail(w), k, (Head(w) * k + c) \div LimbBase)

\* what an int keeps of a value: its low 64 bits
Wrap(w) == SubSeq(w, 1, IntLimbs)

\* the int that strconv.Atoi returns for decimal digits that fit an int
RECURSIVE Int64Of(_)
Int64Of(s) ==
    IF Len(s) = 0 THEN [i \in 1..IntLimbs |-> 0]
    ELSE Wrap(MulAdd(Int64Of(SubSeq(s, 1, Len(s) - 1)), 10, DigitVal(CharAt(s, Len(s)))))

\* w - 1 for a positive w
RECURSIVE Dec(_)
Dec(w) ==
    IF Head(w) > 0 THEN <<Head(w) - 1>> \o Tail(w)
    ELSE <<LimbBase - 1>> \o Dec(Tail(w))

\* the sign bit of the int is set
IsNegative(w) == w[IntLimbs] >= LimbBase \div 2

\* the %d verb of fmt.Sprintf
RECURSIVE Itoa(_)
Itoa(n) ==
    IF n < 0 THEN "-" \o Itoa(0 - n)
    ELSE IF n < 10 THEN Digits[n + 1]
    ELSE Itoa(n \div 10) \o Digits[(n % 10) + 1]

----------------------------------------------------------------------------
(* Input Validator: api/handlers.go *)

validateSearchInput_NoTrim(query) ==
    IF query = "" THEN [query |-> "", ok |-> FALSE]
    ELSE [query |-> EscapeString(SubSeq(query, 1, Min(Len(query), MaxQueryLen))),
          ok |-> TRUE]

\* a validator that trims and cuts but does not escape
validateSearchInput_NoEscape(query) ==
    LET trimmed == TrimSpace(query)
        capped  == IF Len(trimmed) > MaxQueryLen
                   THEN SubSeq(trimmed, 1, MaxQueryLen) ELSE trimmed
    IN  IF trimmed = "" THEN [query |-> "", ok |-> FALSE]
        ELSE [query |-> capped, ok |-> TRUE]

validateSearchInput(query) ==
    LET trimmed == TrimSpace(query)
        capped  == IF Len(trimmed) > MaxQueryLen
                   THEN SubSeq(trimmed, 1, MaxQueryLen) ELSE trimmed
    IN  IF trimmed = "" THEN [query |-> "", ok |-> FALSE]
        ELSE [query |-> EscapeString(capped), ok |-> TRUE]

\* a validatePagination without the upper limit of the size
validatePagination_NoCap(pageStr, sizeStr) ==
    LET p  == Atoi(pageStr)
        s  == Atoi(sizeStr)
    IN  [page |-> IF ~p.ok \/ p.val < 1 THEN DefaultPage ELSE p.val,
         size |-> IF ~s.ok \/ s.val < 1 THEN DefaultPageSize ELSE s.val]

validatePagination(pageStr, sizeStr) ==
    LET p  == Atoi(pageStr)
        s  == Atoi(sizeStr)
        page  == IF ~p.ok \/ p.val < 1 THEN DefaultPage ELSE p.val
        size0 == IF ~s.ok \/ s.val < 1 THEN DefaultPageSize ELSE s.val
        size  == IF size0 > MaxPageSize THEN MaxPageSize ELSE size0
    IN  [page |-> page, size |-> size]

----------------------------------------------------------------------------
(* Geo Classifier: ip/ip_service.go *)

\* the fields of s between the separators sep
RECURSIVE Split(_, _)
Split(s, sep) ==
    IF ~Contains(s, sep) THEN <<s>>
    ELSE LET i == CHOOSE k \in 1..Len(s) :
                      /\ CharAt(s, k) = sep
                      /\ \A j \in 1..(k - 1) : CharAt(s, j) # sep
         IN  <<SubSeq(s, 1, i - 1)>> \o Split(SubSeq(s, i + 1, Len(s)), sep)

\* one field of a dotted quad: 1 to 3 digits, no leading zero, at most 255
IsOctet(f) ==
    /\ AllDigits(f)
    /\ Len(f) <= 3
    /\ (Len(f) > 1 => CharAt(f, 1) # "0")
    /\ DigitsVal(f) <= 255

HexDigits == "0123456789abcdef"

IsHexDigit(c) == \E i \in 1..Len(HexDigits) : CharAt(HexDigits, i) = ToLower(c)
HexDigitVal(c) == (CHOOSE i \in 1..Len(HexDigits) : CharAt(HexDigits, i) = ToLower(c)) - 1

RECURSIVE HexVal(_)
HexVal(f) ==
    IF Len(f) = 0 THEN 0
    ELSE 16 * HexVal(SubSeq(f, 1, Len(f) - 1)) + HexDigitVal(CharAt(f, Len(f)))

\* one group of an IPv6 text: 1 to 4 hexadecimal digits
IsGroup(f) ==
    /\ Len(f) >= 1 /\ Len(f) <= 4
    /\ \A i \in 1..Len(f) : IsHexDigit(CharAt(f, i))

NoAddr == [ok |-> FALSE, ip |-> <<>>]
NoQuad == [ok |-> FALSE, b |-> <<>>]
NoGroups == [ok |-> FALSE, g |-> <<>>]

\* four octets
QuadOf(f) ==
    IF Len(f) = 4 /\ \A i \in 1..4 : IsOctet(f[i])
    THEN [ok |-> TRUE, b |-> [i \in 1..4 |-> DigitsVal(f[i])]]
    ELSE NoQuad

\* the dotted-quad form
ParseIPv4(s) == QuadOf(Split(s, "."))

\* the groups front followed by the two groups of a dotted quad
WithQuad(front, v4) ==
    IF v4.ok
    THEN [ok |-> TRUE,
          g |-> [i \in 1..Len(front) |-> HexVal(front[i])]
                    \o <<v4.b[1] * 256 + v4.b[2], v4.b[3] * 256 + v4.b[4]>>]
    ELSE NoGroups

\* the groups of the fields front and of the last field, which may be a dotted
\* quad and then makes two groups
TailGroups(front, last) ==
    IF \E i \in 1..Len(front) : ~IsGroup(front[i]) THEN NoGroups
    ELSE IF Contains(last, ".") THEN WithQuad(front, ParseIPv4(last))
    ELSE IF IsGroup(last)
    THEN [ok |-> TRUE,
          g |-> [i \in 1..Len(front) |-> HexVal(front[i])] \o <<HexVal(last)>>]
    ELSE NoGroups

\* the 16-bit groups that a list of IPv6 text fields denotes
FieldGroups(f) ==
    IF Len(f) = 0 THEN [ok |-> TRUE, g |-> <<>>]
    ELSE TailGroups(SubSeq(f, 1, Len(f) - 1), f[Len(f)])

\* the groups on one side of "::"; a dotted quad can only end the address
SideGroups(t, isLeft) ==
    IF t = "" THEN [ok |-> TRUE, g |-> <<>>]
    ELSE IF isLeft /\ Contains(t, ".") THEN NoGroups
    ELSE FieldGroups(Split(t, ":"))

\* the groups before and after "::" with the zero groups it stands for
Expand(lg, rg) ==
    IF lg.ok /\ rg.ok /\ Len(lg.g) + Len(rg.g) <= 7
    THEN [ok |-> TRUE,
          ip |-> lg.g \o [k \in 1..(8 - Len(lg.g) - Len(rg.g)) |-> 0] \o rg.g]
    ELSE NoAddr

\* the text with its first "::" at position i
Elided(s, i) ==
    Expand(SideGroups(SubSeq(s, 1, i - 1), TRUE),
           SideGroups(SubSeq(s, i + 2, Len(s)), FALSE))

\* eight groups written out
Full(fg) == IF fg.ok /\ Len(fg.g) = 8 THEN [ok |-> TRUE, ip |-> fg.g] ELSE NoAddr

\* the colon form: eight groups, or fewer around one "::"; no zone
ParseIPv6(s) ==
    IF Contains(s, "::")
    THEN Elided(s, CHOOSE k \in 1..Len(s) :
                       /\ SubSeq(s, k, k + 1) = "::"
                       /\ \A j \in 1..(k - 1) : SubSeq(s, j, j + 1) # "::")
    ELSE Full(FieldGroups(Split(s, ":")))

\* an IPv4 address in its IPv4-mapped form
Mapped(s, v4) ==
    IF v4.ok
    THEN [ok |-> TRUE,
          ip |-> <<0, 0, 0, 0, 0, 65535,
                   v4.b[1] * 256 + v4.b[2], v4.b[3] * 256 + v4.b[4]>>]
    ELSE IF Contains(s, ":") THEN ParseIPv6(s)
    ELSE NoAddr

\* net.ParseIP: the address as eight 16-bit groups; not ok stands for nil
ParseIP(s) == Mapped(s, ParseIPv4(s))

\* net.IP.To4: the four bytes of an IPv4 or IPv4-mapped address; not ok stands
\* for nil
To4(ip) ==
    IF (\A i \in 1..5 : ip[i] = 0) /\ ip[6] = 65535
    THEN [ok |-> TRUE,
          b |-> <<ip[7] \div 256, ip[7] % 256, ip[8] \div 256, ip[8] % 256>>]
    ELSE NoQuad

\* net.IP.IsLoopback: 127.0.0.0/8, or ::1
IsLoopback(ip) ==
    IF To4(ip).ok THEN To4(ip).b[1] = 127
    ELSE ip = <<0, 0, 0, 0, 0, 0, 0, 1>>

\* lines 47-49 of isPrivateIP on the four bytes
InPrivateRange(b) ==
    \/ b[1] = 10
    \/ (b[1] = 172 /\ b[2] >= 16 /\ b[2] <= 31)
    \/ (b[1] = 192 /\ b[2] = 168)

isPrivateIP(ip) == IF To4(ip).ok THEN InPrivateRange(To4(ip).b) ELSE FALSE

\* lines 25-42 of IsChinaMainland, that take an address that did not parse for
\* restricted
Classify_FailClosed(p) ==
    IF ~p.ok THEN TRUE
    ELSE IF IsLoopback(p.ip) \/ isPrivateIP(p.ip) THEN TRUE
    ELSE To4(p.ip).ok /\ To4(p.ip).b[1] >= 1 /\ To4(p.ip).b[1] <= 100

\* lines 25-42 of IsChinaMainland on the parsed address
Classify(p) ==
    IF ~p.ok THEN FALSE
    ELSE IF IsLoopback(p.ip) \/ isPrivateIP(p.ip) THEN TRUE
    ELSE To4(p.ip).ok /\ To4(p.ip).b[1] >= 1 /\ To4(p.ip).b[1] <= 100

IsChinaMainland(ipStr) ==
    IF ipStr = "::1" THEN TRUE ELSE Classify(ParseIP(ipStr))

----------------------------------------------------------------------------
(* Documents and the index backend (Elasticsearch, a collaborator) *)

DocDomain  == [id |-> "d1", title |-> "free videos", content |-> "watch now",
               url |-> "http://porn.com/v", score |-> 9]
DocClean   == [id |-> "d2", title |-> "go tutorial", content |-> "learn go",
               url |-> "http://golang.example/doc", score |-> 7]
DocKeyword == [id |-> "d3", title |-> "casino", content |-> "xxx live",
               url |-> "http://ok.example/c", score |-> 5]
DocUpper   == [id |-> "d4", title |-> "R&D", content |-> "PORN.COM mirror",
               url |-> "http://PORN.COM/", score |-> 3]

InitIndex == <<DocDomain, DocClean>>
NewDocs == {DocKeyword, DocUpper}

\* Handler.Index escapes the title and the content before indexing
IndexedForm(doc) ==
    [doc EXCEPT !.title = EscapeString(doc.title), !.content = EscapeString(doc.content)]

\* every document the index can hold
DocUniverse == {InitIndex[i] : i \in 1..Len(InitIndex)} \cup {IndexedForm(d) : d \in NewDocs}

\* documents that carry a blocklist entry in one field only
DocTitleDomain   == [id |-> "d5", title |-> "visit adult.com today", content |-> "news",
                     url |-> "http://ok.example/t", score |-> 4]
DocUrlKeyword    == [id |-> "d6", title |-> "photos", content |-> "gallery",
                     url |-> "http://xxx.example/g", score |-> 4]
DocContentDomain == [id |-> "d7", title |-> "links", content |-> "see bad-content.org",
                     url |-> "http://ok.example/l", score |-> 2]
DocTitleKeyword  == [id |-> "d8", title |-> "U+8D4CU+535A guide", content |-> "odds",
                     url |-> "http://ok.example/k", score |-> 1]

\* every document handed to the moderator
ModeratedDocs ==
    DocUniverse \cup {DocTitleDomain, DocUrlKeyword, DocContentDomain, DocTitleKeyword}

\* the from/size window of the ranked hits
Window(docs, from, size) ==
    SubSeq(docs, from + 1, Min(from + size, Len(docs)))

\* getSuggestions
getSuggestions(query) ==
    <<query \o " tutorial", query \o " example", query \o " docs">>

\* the SearchResult parsed from a successful backend response (steps 3 to 5 of
\* Service.Search); every indexed document matches, in the order of the index
FetchResult(idx, query, page, size) ==
    [total       |-> Len(idx),
     hits        |-> Window(idx, (page - 1) * size, size),
     took        |-> 1,
     suggestions |-> getSuggestions(query)]

\* "from": (page - 1) * size, line 103 of Service.Search, in int arithmetic
QueryFrom(page, size) == Wrap(MulAdd(Dec(page), size, 0))

\* esapi.IndexRequest with DocumentID: replace the document of that id, or add it
Upsert(idx, doc) ==
    IF \E i \in 1..Len(idx) : idx[i].id = doc.id
    THEN [i \in 1..Len(idx) |-> IF idx[i].id = doc.id THEN doc ELSE idx[i]]
    ELSE Append(idx, doc)

----------------------------------------------------------------------------
(* Content Moderator: filter.Service in api/handlers.go *)

\* loadDefaultBlacklist
blockedDomains ==
    {"example-adult-site.com", "bad-content.org", "xxx-test.net", "adult.com", "porn.com"}

\* the three keywords written in Chinese are given by their code points
sensitiveKeywords ==
    {"U+6210U+4EBA", "U+8272U+60C5", "U+8D4CU+535A", "xxx", "porn"}

\* a scan that compares without regard to letter case
isBlockedScan_FoldsCase(doc) ==
    \/ \E domain \in blockedDomains :
           \/ Contains(ToLower(doc.url), domain)
           \/ Contains(ToLower(doc.title), domain)
    \/ \E kw \in sensitiveKeywords :
           \/ Contains(ToLower(doc.title), kw)
           \/ Contains(ToLower(doc.content), kw)

\* isBlocked: the two scans
isBlockedScan(doc) ==
    \/ \E domain \in blockedDomains :
           Contains(doc.url, domain) \/ Contains(doc.title, domain)
    \/ \E kw \in sensitiveKeywords :
           Contains(doc.title, kw) \/ Contains(doc.content, kw)

\* the scan of every document, computed once
BlockedTable == [d \in ModeratedDocs |-> isBlockedScan(d)]

isBlocked(doc) ==
    IF doc \in ModeratedDocs THEN BlockedTable[doc] ELSE isBlockedScan(doc)

RECURSIVE FilterFrom(_, _, _)
FilterFrom(results, safeResults, filteredCount) ==
    IF Len(results) = 0
    THEN [hits |-> safeResults, count |-> filteredCount]
    ELSE IF isBlocked(Head(results))
         THEN FilterFrom(Tail(results), safeResults, filteredCount + 1)
         ELSE FilterFrom(Tail(results), Append(safeResults, Head(results)), filteredCount)

\* a Filter that counts the document but forgets to skip it
Filter_NoContinue(results) ==
    [hits |-> results, count |-> FilterFrom(results, <<>>, 0).count]

\* a Filter whose count only tells whether anything was removed
Filter_CountsOnce(results) ==
    LET f == FilterFrom(results, <<>>, 0)
    IN  [hits |-> f.hits, count |-> IF f.count > 0 THEN 1 ELSE 0]

RECURSIVE Reverse(_)
Reverse(q) == IF Len(q) = 0 THEN <<>> ELSE Append(Reverse(Tail(q)), Head(q))

\* a Filter that puts each kept document in front of the kept ones
Filter_Prepends(results) ==
    LET f == FilterFrom(results, <<>>, 0)
    IN  [hits |-> Reverse(f.hits), count |-> f.count]

\* a Filter whose loop starts at the second document
Filter_SkipsFirst(results) ==
    IF Len(results) = 0 THEN FilterFrom(results, <<>>, 0)
    ELSE FilterFrom(Tail(results), <<>>, 0)

Filter(results) == FilterFrom(results, <<>>, 0)

----------------------------------------------------------------------------
(* Serialization of a SearchResult (encoding/json) *)

ZeroTime == "0001-01-01T00:00:00Z"

MarshalDoc(d) ==
    <<"id", d.id, "title", d.title, "content", d.content, "url", d.url,
      "score", d.score, "timestamp", ZeroTime>>

UnmarshalDoc(v) ==
    [id |-> v[2], title |-> v[4], content |-> v[6], url |-> v[8], score |-> v[10]]

\* json.Marshal(result): a nil slice of hits is written as null
Marshal(result) ==
    <<"total", result.total,
      "hits", [null |-> Len(result.hits) = 0,
               arr  |-> [i \in 1..Len(result.hits) |-> MarshalDoc(result.hits[i])]],
      "took", result.took,
      "suggestions", result.suggestions>>

\* json.Unmarshal([]byte(val), &result): anything but an object is an error
Unmarshal(val) ==
    IF Len(val) # 8 THEN [ok |-> FALSE, result |-> <<>>]
    ELSE [ok |-> TRUE,
          result |-> [total       |-> val[2],
                      hits        |-> IF val[4].null THEN <<>>
                                      ELSE [i \in 1..Len(val[4].arr) |-> UnmarshalDoc(val[4].arr[i])],
                      took        |-> val[6],
                      suggestions |-> val[8]]]

\* a key whose fields follow each other without a separator
CacheKey_NoSeparators(query, page, size) ==
    "search:" \o query \o Itoa(page) \o Itoa(size)

\* fmt.Sprintf("search:%s:%d:%d", query, page, size)
CacheKey(query, page, size) ==
    "search:" \o query \o ":" \o Itoa(page) \o ":" \o Itoa(size)

----------------------------------------------------------------------------
(* The requests *)

Reqs == 1..MaxReq

\* GET /api/search?q=..&page=..&size=.. from a client address
Inputs ==
    {[q |-> "go",    page |-> "1",   size |-> "10", ip |-> "203.0.113.9"],
     [q |-> " go ",  page |-> "abc", size |-> "10", ip |-> "10.0.0.5"],
     [q |-> " \t",   page |-> "1",   size |-> "10", ip |-> "::1"],
     [q |-> "<go  x>", page |-> "2", size |-> "1",  ip |-> "1.2.3.4"]}

\* lines 85-92 and 102-103 of Handler.Search and line 84 of Service.Search on
\* each input, computed once
Validated ==
    [in \in Inputs |->
        LET v == validateSearchInput(in.q)
            p == validatePagination(in.page, in.size)
        IN  [ok |-> v.ok, query |-> v.query, page |-> p.page, size |-> p.size,
             key |-> IF v.ok THEN CacheKey(v.query, p.page, p.size) ELSE "",
             isCN |-> IsChinaMainland(in.ip)]]

\* lines 97-98 of Service.Search on each normalized query, computed once
FinalTable ==
    [q \in {Validated[in].query : in \in Inputs} |-> Join(Fields(q), " ")]

\* finalQuery, the text of the multi_match query sent to the backend
finalQuery(query) ==
    IF query \in DOMAIN FinalTable THEN FinalTable[query] ELSE Join(Fields(query), " ")

NoInput  == [q |-> "", page |-> "", size |-> "", ip |-> ""]
NoResult == [total |-> 0, hits |-> <<>>, took |-> 0, suggestions |-> <<>>]
NoResp   == [status |-> 0, error |-> "", result |-> NoResult, filtered |-> FALSE,
             message |-> ""]
NoWB     == [st |-> "none", data |-> <<>>]

IdleReq ==
    [pc |-> "idle", in |-> NoInput, query |-> "", page |-> 0, size |-> 0, key |-> "",
     cancelled |-> FALSE, get |-> "none", val |-> <<>>, indexedBefore |-> 0,
     sawEntry |-> FALSE,
     queried |-> FALSE,
     sent |-> "", err |-> "",
     result |-> NoResult, retrieved |-> <<>>, resp |-> NoResp]

NoCall == [fn |-> "none", arg |-> <<>>]

\* the key under which another writer has left an entry
LeftoverKey == CacheKey("go", DefaultPage, DefaultPageSize)

\* a stored value that json.Unmarshal cannot read into a SearchResult
CorruptVal == <<"{\"total\":">>

\* the Redis keyspace when the service starts: empty, or with an entry left under
\* a key by another writer
StoreAtStart ==
    {<<>>, [k \in {LeftoverKey} |-> [val |-> CorruptVal, ttl |-> CacheTTLMinutes]]}

Init ==
    /\ reqs = [r \in Reqs |-> IdleReq]
    /\ wb = [r \in Reqs |-> NoWB]
    /\ cache \in StoreAtStart
    /\ index = InitIndex
    /\ returned = {}
    /\ nIndexed = 0
    /\ call = NoCall
    /\ ret = <<>>

HasKey(k) == k \in DOMAIN cache

\* the entry under k is one a write-back wrote
WrittenBack(k) == HasKey(k) /\ cache[k].val # CorruptVal

\* the errors Service.Search returns when the backend query fails
BackendErrors ==
    {"dial tcp 127.0.0.1:9200: connect: connection refused",
     "search request failed: [503 Service Unavailable] cluster es-prod-1",
     "invalid character '<' looking for beginning of value"}

\* the error of a call whose context is cancelled
CtxCanceled == "context canceled"

\* c.Request.Context() is done: the client went away, or the handler has returned
CtxDone(r) == reqs[r].cancelled \/ reqs[r].pc = "done"

----------------------------------------------------------------------------
(* Handler.Search, lines 85-92: validation *)

Receive(r) ==
    /\ reqs[r].pc = "idle"
    /\ \A q \in Reqs : q < r => reqs[q].pc # "idle"
    /\ \E in \in Inputs :
         LET v == Validated[in]
         IN  reqs' = [reqs EXCEPT ![r] =
                 IF ~v.ok
                 THEN [@ EXCEPT !.pc = "done", !.in = in,
                                !.resp = [NoResp EXCEPT !.status = 400,
                                                        !.error = InvalidQueryBody]]
                 ELSE [@ EXCEPT !.pc = "cacheget", !.in = in, !.query = v.query,
                                !.page = v.page, !.size = v.size, !.key = v.key]]
    /\ UNCHANGED <<wb, cache, index, returned, nIndexed, call, ret>>

(* The client goes away while its request is served: the context that Handler.Search *)
(* hands to Service.Search (line 94) is cancelled                                    *)

Cancel(r) ==
    /\ reqs[r].pc \in {"cacheget", "fetch", "respond"}
    /\ ~reqs[r].cancelled
    /\ Cardinality({q \in Reqs : reqs[q].cancelled}) < MaxCancel
    /\ reqs' = [reqs EXCEPT ![r].cancelled = TRUE]
    /\ UNCHANGED <<wb, cache, index, returned, nIndexed, call, ret>>

(* Service.Search, lines 84-91: the cache read *)

\* a cache read whose value is never used
CacheHit_Ignored(r) ==
    /\ reqs[r].pc = "cacheget"
    /\ HasKey(reqs[r].key)
    /\ reqs' = [reqs EXCEPT ![r] =
           [@ EXCEPT !.pc = "fetch", !.get = "corrupt", !.sawEntry = TRUE]]
    /\ UNCHANGED <<wb, cache, index, returned, nIndexed, call, ret>>

\* a cache read that returns the result also when the value did not unmarshal
CacheHit_CorruptIsEmpty(r) ==
    /\ reqs[r].pc = "cacheget"
    /\ HasKey(reqs[r].key)
    /\ LET u == Unmarshal(cache[reqs[r].key].val)
       IN  reqs' = [reqs EXCEPT ![r] =
               IF u.ok
               THEN [@ EXCEPT !.pc = "respond", !.get = "hit",
                              !.val = cache[reqs[r].key].val,
                              !.indexedBefore = nIndexed,
                              !.sawEntry = WrittenBack(reqs[r].key),
                              !.result = u.result, !.retrieved = u.result.hits]
               ELSE [@ EXCEPT !.pc = "respond", !.get = "corrupt",
                              !.val = cache[reqs[r].key].val,
                              !.sawEntry = WrittenBack(reqs[r].key)]]
    /\ UNCHANGED <<wb, cache, index, returned, nIndexed, call, ret>>

\* redisClient.Get answers with a value: the value unmarshals and is returned, or
\* it does not and the request goes on as on a miss
CacheHit(r) ==
    /\ reqs[r].pc = "cacheget"
    /\ HasKey(reqs[r].key)
    /\ LET u == Unmarshal(cache[reqs[r].key].val)
       IN  reqs' = [reqs EXCEPT ![r] =
               IF u.ok
               THEN [@ EXCEPT !.pc = "respond", !.get = "hit",
                              !.val = cache[reqs[r].key].val,
                              !.indexedBefore = nIndexed,
                              !.sawEntry = WrittenBack(reqs[r].key),
                              !.result = u.result, !.retrieved = u.result.hits]
               ELSE [@ EXCEPT !.pc = "fetch", !.get = "corrupt",
                              !.val = cache[reqs[r].key].val,
                              !.sawEntry = WrittenBack(reqs[r].key)]]
    /\ UNCHANGED <<wb, cache, index, returned, nIndexed, call, ret>>

\* a miss that goes on to the response without a backend query
CacheNil_SkipsFetch(r) ==
    /\ reqs[r].pc = "cacheget"
    /\ ~HasKey(reqs[r].key)
    /\ reqs' = [reqs EXCEPT ![r] = [@ EXCEPT !.pc = "respond", !.get = "nil"]]
    /\ UNCHANGED <<wb, cache, index, returned, nIndexed, call, ret>>

\* redisClient.Get answers redis.Nil: no such key
CacheNil(r) ==
    /\ reqs[r].pc = "cacheget"
    /\ ~HasKey(reqs[r].key)
    /\ reqs' = [reqs EXCEPT ![r] = [@ EXCEPT !.pc = "fetch", !.get = "nil"]]
    /\ UNCHANGED <<wb, cache, index, returned, nIndexed, call, ret>>

\* a store error that fails the request
CacheDown_Fails(r) ==
    /\ reqs[r].pc = "cacheget"
    /\ reqs' = [reqs EXCEPT ![r] =
           [@ EXCEPT !.pc = "done", !.get = "down", !.sawEntry = WrittenBack(reqs[r].key),
                     !.resp = [NoResp EXCEPT !.status = 500,
                                             !.error = InternalErrorBody]]]
    /\ UNCHANGED <<wb, cache, index, returned, nIndexed, call, ret>>

\* redisClient.Get fails: the store cannot be reached
CacheDown(r) ==
    /\ reqs[r].pc = "cacheget"
    /\ reqs' = [reqs EXCEPT ![r] =
           [@ EXCEPT !.pc = "fetch", !.get = "down",
                     !.sawEntry = WrittenBack(reqs[r].key)]]
    /\ UNCHANGED <<wb, cache, index, returned, nIndexed, call, ret>>

(* Service.Search, lines 97-176: the backend query on a miss *)

SetCache(c, k, v) == [x \in DOMAIN c \cup {k} |-> IF x = k THEN v ELSE c[x]]
DelCache(c, k) == [x \in DOMAIN c \ {k} |-> c[x]]

\* a Search that marshals and writes the entry itself before it returns
BackendOk_WritesInline(r) ==
    /\ reqs[r].pc = "fetch"
    /\ LET res == FetchResult(index, reqs[r].query, reqs[r].page, reqs[r].size)
       IN  /\ reqs' = [reqs EXCEPT ![r] =
                  [@ EXCEPT !.pc = "respond", !.queried = TRUE,
                            !.sent = finalQuery(reqs[r].query), !.result = res,
                            !.retrieved = res.hits]]
           /\ returned' = returned \cup {<<reqs[r].key, res.hits>>}
           /\ cache' = SetCache(cache, reqs[r].key,
                                [val |-> Marshal(res), ttl |-> CacheTTLMinutes])
           /\ wb' = [wb EXCEPT ![r] = [st |-> "set", data |-> Marshal(res)]]
    /\ UNCHANGED <<index, nIndexed, call, ret>>

\* the query succeeds: the result is built, the write-back goroutine is started
\* (line 170) and the result is returned
BackendOk(r) ==
    /\ reqs[r].pc = "fetch"
    /\ ~reqs[r].cancelled
    /\ LET res == FetchResult(index, reqs[r].query, reqs[r].page, reqs[r].size)
       IN  /\ reqs' = [reqs EXCEPT ![r] =
                  [@ EXCEPT !.pc = "respond", !.queried = TRUE,
                            !.sent = finalQuery(reqs[r].query), !.result = res,
                            !.retrieved = res.hits]]
           /\ returned' = returned \cup {<<reqs[r].key, res.hits>>}
    /\ wb' = [wb EXCEPT ![r] = [st |-> "spawned", data |-> <<>>]]
    /\ UNCHANGED <<cache, index, nIndexed, call, ret>>

\* a failed query that starts the write-back all the same
BackendFail_StillCaches(r) ==
    /\ reqs[r].pc = "fetch"
    /\ \E e \in BackendErrors :
         reqs' = [reqs EXCEPT ![r] =
             [@ EXCEPT !.pc = "done", !.queried = TRUE,
                       !.sent = finalQuery(reqs[r].query), !.err = e,
                       !.resp = [NoResp EXCEPT !.status = 500,
                                               !.error = InternalErrorBody]]]
    /\ wb' = [wb EXCEPT ![r] = [st |-> "spawned", data |-> <<>>]]
    /\ UNCHANGED <<cache, index, returned, nIndexed, call, ret>>

\* a handler that hands the backend's error text to the client
BackendFail_LeaksDetail(r) ==
    /\ reqs[r].pc = "fetch"
    /\ \E e \in BackendErrors :
         reqs' = [reqs EXCEPT ![r] =
             [@ EXCEPT !.pc = "done", !.queried = TRUE,
                       !.sent = finalQuery(reqs[r].query), !.err = e,
                       !.resp = [NoResp EXCEPT !.status = 500, !.error = e]]]
    /\ UNCHANGED <<wb, cache, index, returned, nIndexed, call, ret>>

\* the transport fails, the backend answers an error status, or the body does not
\* decode; with a cancelled context the call fails with that error: Search returns
\* the error (lines 129-142) and the handler answers 500 (lines 95-99)
BackendFail(r) ==
    /\ reqs[r].pc = "fetch"
    /\ \E e \in (IF reqs[r].cancelled THEN {CtxCanceled} ELSE BackendErrors) :
         reqs' = [reqs EXCEPT ![r] =
             [@ EXCEPT !.pc = "done", !.queried = TRUE,
                       !.sent = finalQuery(reqs[r].query), !.err = e,
                       !.resp = [NoResp EXCEPT !.status = 500,
                                               !.error = InternalErrorBody]]]
    /\ UNCHANGED <<wb, cache, index, returned, nIndexed, call, ret>>

\* the body decodes but has not the expected shape: a type assertion of lines
\* 144-157 panics, and gin's Recovery (router.go, gin.Default) answers 500, no body
BackendPanic(r) ==
    /\ reqs[r].pc = "fetch"
    /\ ~reqs[r].cancelled
    /\ reqs' = [reqs EXCEPT ![r] =
           [@ EXCEPT !.pc = "done", !.queried = TRUE,
                     !.sent = finalQuery(reqs[r].query),
                     !.err = "panic: interface conversion",
                     !.resp = [NoResp EXCEPT !.status = 500]]]
    /\ UNCHANGED <<wb, cache, index, returned, nIndexed, call, ret>>

(* Handler.Search, lines 101-120: moderation and the response. response embeds   *)
(* the *SearchResult, so response.Hits = filteredHits assigns through the pointer *)
(* the write-back goroutine reads.                                                *)

\* a handler that raises the flag for every restricted caller
Respond_FlagAlways(r) ==
    /\ reqs[r].pc = "respond"
    /\ LET isCN == Validated[reqs[r].in].isCN
           f    == Filter(reqs[r].result.hits)
           res  == IF isCN /\ f.count > 0 THEN [reqs[r].result EXCEPT !.hits = f.hits]
                   ELSE reqs[r].result
       IN  reqs' = [reqs EXCEPT ![r] =
               [@ EXCEPT !.pc = "done", !.result = res,
                         !.resp = [status |-> 200, error |-> "", result |-> res,
                                   filtered |-> isCN,
                                   message |-> IF isCN THEN Notice ELSE ""]]]
    /\ UNCHANGED <<wb, cache, index, returned, nIndexed, call, ret>>

\* a handler that takes the withheld hits off the total
Respond_AdjustsTotal(r) ==
    /\ reqs[r].pc = "respond"
    /\ LET isCN == Validated[reqs[r].in].isCN
           f    == Filter(reqs[r].result.hits)
           cut  == isCN /\ f.count > 0
           res  == IF cut THEN [reqs[r].result EXCEPT !.hits = f.hits,
                                                      !.total = @ - f.count]
                   ELSE reqs[r].result
       IN  reqs' = [reqs EXCEPT ![r] =
               [@ EXCEPT !.pc = "done", !.result = res,
                         !.resp = [status |-> 200, error |-> "", result |-> res,
                                   filtered |-> cut,
                                   message |-> IF cut THEN Notice ELSE ""]]]
    /\ UNCHANGED <<wb, cache, index, returned, nIndexed, call, ret>>

\* lines 102-120: the hits are replaced, and the flag and the notice set, only
\* when Filter removed something for a restricted caller
Respond(r) ==
    /\ reqs[r].pc = "respond"
    /\ LET isCN == Validated[reqs[r].in].isCN
           f    == Filter(reqs[r].result.hits)
           cut  == isCN /\ f.count > 0
           res  == IF cut THEN [reqs[r].result EXCEPT !.hits = f.hits]
                   ELSE reqs[r].result
       IN  reqs' = [reqs EXCEPT ![r] =
               [@ EXCEPT !.pc = "done", !.result = res,
                         !.resp = [status |-> 200, error |-> "", result |-> res,
                                   filtered |-> cut,
                                   message |-> IF cut THEN Notice ELSE ""]]]
    /\ UNCHANGED <<wb, cache, index, returned, nIndexed, call, ret>>

(* The detached write-back, Service.Search lines 170-173 *)

\* data, _ := json.Marshal(result): reads the SearchResult the handler holds
WbMarshal(r) ==
    /\ wb[r].st = "spawned"
    /\ wb' = [wb EXCEPT ![r] = [st |-> "marshalled", data |-> Marshal(reqs[r].result)]]
    /\ UNCHANGED <<reqs, cache, index, returned, nIndexed, call, ret>>

\* a write that is made with the context of the request
WbSet_UsesRequestCtx(r) ==
    /\ wb[r].st = "marshalled"
    /\ ~CtxDone(r)
    /\ cache' = SetCache(cache, reqs[r].key,
                         [val |-> wb[r].data, ttl |-> CacheTTLMinutes])
    /\ wb' = [wb EXCEPT ![r].st = "set"]
    /\ UNCHANGED <<reqs, index, returned, nIndexed, call, ret>>

\* redisClient.Set(context.Background(), cacheKey, data, 5*time.Minute) succeeds
WbSet(r) ==
    /\ wb[r].st = "marshalled"
    /\ cache' = SetCache(cache, reqs[r].key,
                         [val |-> wb[r].data, ttl |-> CacheTTLMinutes])
    /\ wb' = [wb EXCEPT ![r].st = "set"]
    /\ UNCHANGED <<reqs, index, returned, nIndexed, call, ret>>

\* a failed write that is reported on the request
WbSetFail_Surfaces(r) ==
    /\ wb[r].st = "marshalled"
    /\ wb' = [wb EXCEPT ![r].st = "failed"]
    /\ reqs' = [reqs EXCEPT ![r].resp =
           [NoResp EXCEPT !.status = 500, !.error = InternalErrorBody]]
    /\ UNCHANGED <<cache, index, returned, nIndexed, call, ret>>

\* redisClient.Set fails; its result is not looked at
WbSetFail(r) ==
    /\ wb[r].st = "marshalled"
    /\ wb' = [wb EXCEPT ![r].st = "failed"]
    /\ UNCHANGED <<reqs, cache, index, returned, nIndexed, call, ret>>

(* The store drops an entry when its TTL has run out *)

Expire(k) ==
    /\ HasKey(k)
    /\ cache' = DelCache(cache, k)
    /\ UNCHANGED <<reqs, wb, index, returned, nIndexed, call, ret>>

(* Handler.Index and Service.IndexDocument: POST /api/index *)

\* an IndexDocument that empties the cache
IndexDocument_Invalidates(doc) ==
    /\ nIndexed < MaxIndexOps
    /\ index' = Upsert(index, IndexedForm(doc))
    /\ nIndexed' = nIndexed + 1
    /\ cache' = <<>>
    /\ UNCHANGED <<reqs, wb, returned, call, ret>>

IndexDocument(doc) ==
    /\ nIndexed < MaxIndexOps
    /\ index' = Upsert(index, IndexedForm(doc))
    /\ nIndexed' = nIndexed + 1
    /\ UNCHANGED <<reqs, wb, cache, returned, call, ret>>

Next ==
    \/ \E r \in Reqs :
         \/ Receive(r)
         \/ Cancel(r)
         \/ CacheHit(r)
         \/ CacheNil(r)
         \/ CacheDown(r)
         \/ BackendOk(r)
         \/ BackendFail(r)
         \/ BackendPanic(r)
         \/ Respond(r)
         \/ WbMarshal(r)
         \/ WbSet(r)
         \/ WbSetFail(r)
    \/ \E k \in DOMAIN cache : Expire(k)
    \/ \E doc \in NewDocs : IndexDocument(doc)

Spec == Init /\ [][Next]_vars

----------------------------------------------------------------------------
(* Cache-aside helper: cache.CacheService.GetOrSet. No code calls it;          *)
(* Service.Search carries its own cache read, fetch and write-back.            *)

\* a GetOrSet that starts the write also when fetch failed
GetOrSet_SetsOnError(got, fetched) ==
    IF got.err = ""
    THEN [val |-> got.val, err |-> "", fetched |-> FALSE, set |-> FALSE]
    ELSE [val |-> IF fetched.err # "" THEN <<>> ELSE fetched.data,
          err |-> fetched.err, fetched |-> TRUE, set |-> TRUE]

\* GetOrSet on what client.Get answered and on what fetch answers when it is
\* called: the value returned, the error returned, whether fetch was called and
\* whether the goroutine that sets the key was started
GetOrSet(got, fetched) ==
    IF got.err = ""
    THEN [val |-> got.val, err |-> "", fetched |-> FALSE, set |-> FALSE]
    ELSE IF fetched.err # ""
    THEN [val |-> <<>>, err |-> fetched.err, fetched |-> TRUE, set |-> FALSE]
    ELSE [val |-> fetched.data, err |-> "", fetched |-> TRUE, set |-> TRUE]

----------------------------------------------------------------------------
(* The pure functions, applied to enumerated arguments. They keep no state, so *)
(* a behaviour applies one function to one argument: a later application      *)
(* would find the same function of its argument.                              *)

Alphabet == {" ", "\t", "\n", "a", "<", ">", "&"}

RECURSIVE Strings(_)
Strings(n) ==
    IF n = 0 THEN {""}
    ELSE LET shorter == Strings(n - 1)
         IN  shorter \cup {s \o c : s \in shorter, c \in Alphabet}

RawQueries == Strings(MaxRawLen)

\* n copies of the character c
RECURSIVE Rep(_, _)
Rep(c, n) == IF n <= 0 THEN "" ELSE c \o Rep(c, n - 1)

\* raw queries around the length limit: a run of letters between two affixes
Affixes == {"", " ", "<", "a&", "\t "}

LongQueries ==
    {h \o Rep("a", n) \o t :
        h \in Affixes, t \in Affixes,
        n \in (MaxQueryLen - MaxOver - 1)..(MaxQueryLen + MaxOver)}

CallValidateSearchInput ==
    /\ call = NoCall
    /\ \E raw \in RawQueries \cup LongQueries :
         /\ call' = [fn |-> "validateSearchInput", arg |-> raw]
         /\ ret' = validateSearchInput(raw)
    /\ UNCHANGED sysvars

NumAlphabet == {"0", "1", "5", "9", "-", "+", "a"}

RECURSIVE NumStrings(_)
NumStrings(n) ==
    IF n = 0 THEN {""}
    ELSE LET shorter == NumStrings(n - 1)
         IN  shorter \cup {s \o c : s \in shorter, c \in NumAlphabet}

\* texts of the page and size parameters: every short text, and some long ones
PageTexts ==
    NumStrings(MaxNumLen)
        \cup {"abc", "1000", " 5", "1.5", "20", "100",
              "99999999999999999999", "-99999999999999999999",
              "9223372036854775808", "00000000000000000000007"}

\* each text as the page beside a plain size, and as the size beside a plain page
PagePairs ==
    {<<t, "10">> : t \in PageTexts} \cup {<<"1", t>> : t \in PageTexts}
        \cup {<<"abc", "1000">>, <<"", "">>, <<"2", "20">>, <<"-1", "-1">>,
              <<"99999999999999999999", "99999999999999999999">>}

CallValidatePagination ==
    /\ call = NoCall
    /\ \E a \in PagePairs :
         /\ call' = [fn |-> "validatePagination", arg |-> a]
         /\ ret' = validatePagination(a[1], a[2])
    /\ UNCHANGED sysvars

RECURSIVE SeqsUpTo(_, _)
SeqsUpTo(S, n) ==
    IF n = 0 THEN {<<>>}
    ELSE LET shorter == SeqsUpTo(S, n - 1)
         IN  shorter \cup {Append(q, d) : q \in shorter, d \in S}

\* the hit lists handed to Filter
DocSeqs == SeqsUpTo(ModeratedDocs, MaxDocs)

CallFilter ==
    /\ call = NoCall
    /\ \E docs \in DocSeqs :
         /\ call' = [fn |-> "Filter", arg |-> docs]
         /\ ret' = Filter(docs)
    /\ UNCHANGED sysvars

\* Filter applied to the documents the Filter before it kept
CallFilterAgain ==
    /\ call.fn = "Filter"
    /\ call' = [fn |-> "FilterAgain", arg |-> ret.hits]
    /\ ret' = Filter(ret.hits)
    /\ UNCHANGED sysvars

\* client addresses: dotted quads on both sides of every range limit, the same
\* in IPv4-mapped form, IPv6 texts, and texts that are no address
FirstOctets == {0, 1, 10, 100, 101, 127, 172, 192, 203}
SecondOctets == {0, 15, 16, 31, 32, 168}

V4Addrs == {Itoa(a) \o "." \o Itoa(b) \o ".0.1" : a \in FirstOctets, b \in SecondOctets}

V6Addrs ==
    {"::ffff:" \o v : v \in V4Addrs}
        \cup {"::1", "0:0:0:0:0:0:0:1", "::", "::ffff:7f00:1", "fd00::1", "fc00::abcd",
              "FD12:3456:789a::1", "fe80::1", "2001:db8::1", "64:ff9b::1.2.3.4",
              "1:2:3:4:5:6:7:8"}

BadAddrs ==
    {"", "abc", "localhost", "1.2.3", "10.0.0", "256.1.1.1", "1.2.3.4.5", "1.2.3.-4",
     " 10.0.0.1", "10.0.0.1:8080", "::1 ", "[::1]", ":::", "1::2::3", "12345::", "g::1",
     "fe80::1%eth0", "1:2:3:4:5:6:7:8:9", "1:2:3", "1.2.3.4::"}

Addrs == V4Addrs \cup V6Addrs \cup BadAddrs

CallIsChinaMainland ==
    /\ call = NoCall
    /\ \E a \in Addrs :
         /\ call' = [fn |-> "IsChinaMainland", arg |-> a]
         /\ ret' = IsChinaMainland(a)
    /\ UNCHANGED sysvars

\* normalized query texts made of a letter, the separator of the key and a
\* digit, with pages and sizes of one and of two digits
KeyAlphabet == {"a", ":", "1"}

RECURSIVE KeyStrings(_)
KeyStrings(n) ==
    IF n = 0 THEN {""}
    ELSE LET shorter == KeyStrings(n - 1)
         IN  shorter \cup {s \o c : s \in shorter, c \in KeyAlphabet}

KeyNumbers == {DefaultPage, DefaultPageSize + DefaultPage}

KeyTriples ==
    [query : KeyStrings(MaxKeyLen) \ {""}, page : KeyNumbers, size : KeyNumbers]

\* line 84 of Service.Search for two requests
CallCacheKey ==
    /\ call = NoCall
    /\ \E a, b \in KeyTriples :
         /\ call' = [fn |-> "CacheKey", arg |-> <<a, b>>]
         /\ ret' = <<CacheKey(a.query, a.page, a.size),
                     CacheKey(b.query, b.page, b.size)>>
    /\ UNCHANGED sysvars

\* pages that validatePagination returns, as the decimal digits they are parsed
\* from: small ones, the ones on both sides of the largest page whose offset fits
\* an int for a size, and the largest int
WindowPages ==
    {"1", "2", "3", "65536", "65537", "4294967297",
     "184467440737095517", "184467440737095518",
     "4611686018427387904", "4611686018427387905",
     "9223372036854775806", MaxInt64Text}

WindowSizes == {DefaultPage, DefaultPage + DefaultPage, DefaultPageSize, MaxPageSize}

\* lines 102-104 of Service.Search on a page and a size of validatePagination
CallQueryWindow ==
    /\ call = NoCall
    /\ \E p \in WindowPages, size \in WindowSizes :
         /\ AllDigits(p) /\ InInt64(FALSE, p)
         /\ validatePagination("", Itoa(size)).size = size
         /\ call' = [fn |-> "QueryWindow", arg |-> [page |-> p, size |-> size]]
         /\ ret' = [from |-> QueryFrom(Int64Of(p), size), size |-> size]
    /\ UNCHANGED sysvars

NextPure ==
    \/ CallCacheKey
    \/ CallQueryWindow
    \/ CallValidateSearchInput
    \/ CallValidatePagination
    \/ CallFilter
    \/ CallFilterAgain
    \/ CallIsChinaMainland

InitPure == Init /\ cache = <<>>

SpecPure == InitPure /\ [][NextPure]_vars

----------------------------------------------------------------------------
(* Properties *)

Done(r) == reqs[r].pc = "done"
Answered200(r) == Done(r) /\ reqs[r].resp.status = 200
Restricted(r) == reqs[r].in \in Inputs /\ Validated[reqs[r].in].isCN

Whitespace == {" ", "\t", "\n", "\f", "\r"}
AllSpace(s) == \A i \in 1..Len(s) : CharAt(s, i) \in Whitespace

\* the number of documents of hits that match the blocklist
Removed(hits) == Cardinality({i \in 1..Len(hits) : isBlocked(hits[i])})

\* C1, as stated: a Search that finds an unexpired entry written by a completed
\* write-back under its key never queries the backend.
C1_HitNeverQueries ==
    \A r \in Reqs : reqs[r].sawEntry => ~reqs[r].queried

\* C1, amended: a Search that finds an unexpired entry written by a completed
\* write-back under its key, and whose cache read does not fail, takes the cached
\* value, never queries the backend and is answered 200.
C1_CacheRoundTrip ==
    \A r \in Reqs :
        (reqs[r].sawEntry /\ reqs[r].get # "down") =>
            /\ reqs[r].get = "hit"
            /\ ~reqs[r].queried
            /\ reqs[r].pc \in {"respond", "done"}
            /\ wb[r].st = "none"
            /\ (Done(r) => reqs[r].resp.status = 200)

C1_Witness ==
    \E r \in Reqs : reqs[r].get = "hit" /\ Answered200(r) /\ ~reqs[r].queried

\* C2: a 200 response to a restricted caller holds no hit that matches the
\* blocklist, whether the result came from the cache or from the backend.
C2_RestrictedSeesNoBlockedHit ==
    \A r \in Reqs :
        (Answered200(r) /\ Restricted(r)) =>
            \A i \in 1..Len(reqs[r].resp.result.hits) :
                ~isBlocked(reqs[r].resp.result.hits[i])

C2_Witness ==
    \E r, q \in Reqs :
        /\ Answered200(r) /\ Restricted(r) /\ reqs[r].get = "hit"
        /\ Removed(reqs[r].retrieved) > 0
        /\ Answered200(q) /\ Restricted(q) /\ reqs[q].queried
        /\ Removed(reqs[q].retrieved) > 0

\* C3: a 200 response to a caller that is not restricted holds exactly a hit list
\* the backend returned for that key, with filtered = false and no message.
C3_UnrestrictedSeesBackendHits ==
    \A r \in Reqs :
        (Answered200(r) /\ ~Restricted(r)) =>
            /\ <<reqs[r].key, reqs[r].resp.result.hits>> \in returned
            /\ ~reqs[r].resp.filtered
            /\ reqs[r].resp.message = ""

\* C4: for a restricted caller, filtered = true and the notice go with at least
\* one removed hit, and then the hits returned are the hits retrieved less the
\* removed ones; with nothing removed filtered = false and there is no message.
C4_FlagIffRemoved ==
    \A r \in Reqs :
        (Answered200(r) /\ Restricted(r)) =>
            LET n    == Removed(reqs[r].retrieved)
                resp == reqs[r].resp
            IN  /\ resp.filtered <=> n > 0
                /\ resp.filtered =>
                       /\ resp.message = Notice
                       /\ Len(resp.result.hits) = Len(reqs[r].retrieved) - n
                /\ ~resp.filtered =>
                       /\ resp.message = ""
                       /\ resp.result.hits = reqs[r].retrieved

C4_Witness ==
    \E r, q \in Reqs :
        /\ Answered200(r) /\ Restricted(r) /\ reqs[r].resp.filtered
        /\ Len(reqs[r].resp.result.hits) < Len(reqs[r].retrieved)
        /\ Answered200(q) /\ Restricted(q) /\ ~reqs[q].resp.filtered
        /\ Len(reqs[q].retrieved) > 0

\* C5: the step in which the backend query of a miss fails answers the error and
\* changes neither the cache nor any write-back, and a request whose query failed
\* never has a write-back.
C5_FailedFetchWritesNothing ==
    /\ [][\A r \in Reqs :
            (reqs[r].pc = "fetch" /\ reqs'[r].pc = "done") =>
                /\ reqs'[r].resp.status = 500
                /\ reqs'[r].err # ""
                /\ cache' = cache
                /\ wb' = wb]_vars
    /\ [](\A r \in Reqs : reqs[r].err # "" => wb[r].st = "none")

C5_Witness ==
    \E r \in Reqs :
        /\ reqs[r].err \in BackendErrors /\ Done(r) /\ wb[r].st = "none"
        /\ DOMAIN cache # {}

\* C6: a cache read that fails because the store cannot be reached is a miss: the
\* request goes on to query the backend, and when that query succeeds the request
\* is answered 200 with the fetched result; only a failed backend query gives 500.
C6_CacheDownIsMiss ==
    \A r \in Reqs :
        /\ reqs[r].get = "down" =>
               /\ reqs[r].pc \in {"fetch", "respond", "done"}
               /\ (reqs[r].pc # "fetch" => reqs[r].queried)
               /\ (reqs[r].pc # "fetch" /\ reqs[r].err = "") =>
                      <<reqs[r].key, reqs[r].retrieved>> \in returned
               /\ (Done(r) /\ reqs[r].err = "") => reqs[r].resp.status = 200
        /\ reqs[r].resp.status = 500 => reqs[r].err # ""

C6_Witness ==
    \E r \in Reqs :
        /\ reqs[r].get = "down" /\ reqs[r].sawEntry
        /\ Answered200(r) /\ reqs[r].queried

\* C7: the step in which a write-back fails changes no request and no cache
\* entry, and the request whose write-back failed is answered 200 all the same.
C7_WriteBackFailureSwallowed ==
    /\ [][(\E r \in Reqs : wb[r].st # "failed" /\ wb'[r].st = "failed") =>
            (reqs' = reqs /\ cache' = cache)]_vars
    /\ [](\A r \in Reqs : (wb[r].st = "failed" /\ Done(r)) => reqs[r].resp.status = 200)

C7_Witness ==
    \E r \in Reqs : wb[r].st = "failed" /\ Answered200(r)

\* C8: a request whose q is empty after trimming is answered 400 and has read no
\* cache entry, queried no backend and started no write-back.
C8_EmptyQueryIs400 ==
    \A r \in Reqs :
        (reqs[r].pc # "idle" /\ AllSpace(reqs[r].in.q)) =>
            /\ Done(r)
            /\ reqs[r].resp = [NoResp EXCEPT !.status = 400, !.error = InvalidQueryBody]
            /\ reqs[r].get = "none"
            /\ ~reqs[r].queried
            /\ wb[r].st = "none"

C8_Witness ==
    \E r \in Reqs :
        /\ Len(reqs[r].in.q) > 0 /\ AllSpace(reqs[r].in.q)
        /\ Done(r) /\ reqs[r].resp.status = 400

\* C9: when Search returns an error the response is 500 with the one fixed body,
\* whatever the error, and carries no hits, suggestions or other result field.
C9_OpaqueInternalError ==
    \A r \in Reqs :
        reqs[r].err \in BackendErrors \cup {CtxCanceled} =>
            reqs[r].resp = [NoResp EXCEPT !.status = 500, !.error = InternalErrorBody]

C9_Witness ==
    \E r, q \in Reqs :
        /\ reqs[r].err \in BackendErrors /\ reqs[q].err \in BackendErrors
        /\ reqs[r].err # reqs[q].err
        /\ reqs[r].resp = reqs[q].resp

\* C10: validateSearchInput answers ("", false) for a raw query that is empty
\* after trimming, and ok = true for every other raw query.
C10_ValidateRejectsBlank ==
    call.fn = "validateSearchInput" =>
        /\ AllSpace(call.arg) => ret = [query |-> "", ok |-> FALSE]
        /\ ~AllSpace(call.arg) => ret.ok

C10_Witness ==
    /\ call.fn = "validateSearchInput"
    /\ Len(call.arg) = 3 /\ AllSpace(call.arg)
    /\ ~ret.ok

\* C11, as stated: for a raw query longer than 100 characters the normalized
\* result of validateSearchInput has length exactly 100.
C11_LongQueryCutTo100 ==
    (call.fn = "validateSearchInput" /\ Len(call.arg) > MaxQueryLen) =>
        Len(ret.query) = MaxQueryLen

\* the string holds neither raw angle bracket
NoMarkup(s) == ~Contains(s, "<") /\ ~Contains(s, ">")

NoMarkupTable ==
    [s \in {Validated[in].query : in \in Inputs} \cup {in.q : in \in Inputs}
           \cup {FinalTable[q] : q \in DOMAIN FinalTable} |->
        NoMarkup(s)]

Clean(s) == IF s \in DOMAIN NoMarkupTable THEN NoMarkupTable[s] ELSE NoMarkup(s)

Accepted(r) == reqs[r].pc # "idle" /\ reqs[r].key # ""

\* C12, as stated: the normalized query of an accepted request holds no raw
\* '<' or '>', and that one string makes the cache key, is the text of the
\* backend query and is the stem of the suggestions.
C12_EscapedUsedVerbatim ==
    \A r \in Reqs :
        Accepted(r) =>
            /\ Clean(reqs[r].query)
            /\ reqs[r].key = CacheKey(reqs[r].query, reqs[r].page, reqs[r].size)
            /\ reqs[r].queried => reqs[r].sent = reqs[r].query
            /\ (reqs[r].queried /\ reqs[r].err = "") =>
                   reqs[r].result.suggestions = getSuggestions(reqs[r].query)

\* C12, amended: the normalized query of an accepted request holds no raw '<'
\* or '>'; that string makes the cache key and is the stem of the suggestions,
\* and the text of the backend query is that string with every run of white
\* space replaced by one blank, so it holds no raw '<' or '>' either.
C12_EscapedBeforeUse ==
    \A r \in Reqs :
        Accepted(r) =>
            /\ Clean(reqs[r].query)
            /\ reqs[r].key = CacheKey(reqs[r].query, reqs[r].page, reqs[r].size)
            /\ reqs[r].queried =>
                   /\ reqs[r].sent = Join(Fields(reqs[r].query), " ")
                   /\ Clean(reqs[r].sent)
            /\ (reqs[r].queried /\ reqs[r].err = "") =>
                   reqs[r].result.suggestions = getSuggestions(reqs[r].query)

C12_Witness ==
    \E r \in Reqs :
        /\ ~Clean(reqs[r].in.q)
        /\ Answered200(r) /\ reqs[r].queried
        /\ reqs[r].sent # reqs[r].query

\* C13: validatePagination answers for every pair of texts; the page is the
\* parsed value when the text parses to an integer of at least 1 and 1 otherwise,
\* the size is the smaller of the parsed value and 50 when the text parses to an
\* integer of at least 1 and 10 otherwise; so page >= 1 and 1 <= size <= 50, and
\* page = "abc", size = "1000" gives page 1 and size 50.
C13_PaginationTotal ==
    call.fn = "validatePagination" =>
        LET p == Atoi(call.arg[1])
            s == Atoi(call.arg[2])
        IN  /\ ret.page = (IF p.ok /\ p.val >= 1 THEN p.val ELSE 1)
            /\ ret.size = (IF s.ok /\ s.val >= 1 THEN Min(s.val, 50) ELSE 10)
            /\ ret.page >= 1
            /\ ret.size >= 1 /\ ret.size <= 50
            /\ call.arg = <<"abc", "1000">> => ret = [page |-> 1, size |-> 50]
            /\ call.arg = <<"-1", "-1">> => ret = [page |-> 1, size |-> 10]

C13_Witness ==
    /\ call.fn = "validatePagination"
    /\ ~Atoi(call.arg[1]).ok /\ ret.page = 1
    /\ Atoi(call.arg[2]).ok /\ Atoi(call.arg[2]).val > 50 /\ ret.size = 50

Range(q) == {q[i] : i \in 1..Len(q)}

\* a is b with some of its elements left out
RECURSIVE IsSubseq(_, _)
IsSubseq(a, b) ==
    IF Len(a) = 0 THEN TRUE
    ELSE IF Len(b) = 0 THEN FALSE
    ELSE IF Head(a) = Head(b) THEN IsSubseq(Tail(a), Tail(b))
    ELSE IsSubseq(a, Tail(b))

\* the blocklist rule: a blocked domain in the URL or the title, or a blocked
\* keyword in the title or the content, letter for letter
Matches(doc) ==
    \/ \E e \in {"example-adult-site.com", "bad-content.org", "xxx-test.net",
                  "adult.com", "porn.com"} :
           Contains(doc.url, e) \/ Contains(doc.title, e)
    \/ \E e \in {"U+6210U+4EBA", "U+8272U+60C5", "U+8D4CU+535A", "xxx", "porn"} :
           Contains(doc.title, e) \/ Contains(doc.content, e)

\* the same rule on the document with every letter in lower case
MatchesFolded(doc) ==
    Matches([doc EXCEPT !.url = ToLower(doc.url), !.title = ToLower(doc.title),
                        !.content = ToLower(doc.content)])

MatchTable ==
    [d \in ModeratedDocs |-> [exact |-> Matches(d), folded |-> MatchesFolded(d)]]

\* C14: the documents Filter keeps and the number it reports removed add up to
\* the documents it was given.
C14_KeptPlusRemoved ==
    call.fn = "Filter" => Len(ret.hits) + ret.count = Len(call.arg)

C14_Witness ==
    /\ call.fn = "Filter"
    /\ ret.count >= 2 /\ Len(ret.hits) >= 1

\* C15: the documents Filter keeps are a subsequence of the documents it was
\* given: unchanged, in the same relative order, none from elsewhere.
C15_KeptIsSubsequence ==
    call.fn = "Filter" => IsSubseq(ret.hits, call.arg)

C15_Witness ==
    /\ call.fn = "Filter"
    /\ Len(ret.hits) = 2 /\ ret.hits[1] # ret.hits[2]
    /\ ret.count = 1 /\ call.arg[2] \notin Range(ret.hits)

\* C16: Filter applied to what a Filter kept keeps the same sequence and
\* reports nothing removed.
C16_FilterIdempotent ==
    call.fn = "FilterAgain" => ret = [hits |-> call.arg, count |-> 0]

C16_Witness ==
    /\ call.fn = "FilterAgain"
    /\ Len(call.arg) = 2 /\ ret.hits = call.arg /\ ret.count = 0

\* C17: Filter removes a document exactly when the blocklist rule matches it
\* letter for letter; a document the rule matches only after a change of
\* letter case is kept.
C17_RemovedIffMatches ==
    call.fn = "Filter" =>
        \A i \in 1..Len(call.arg) :
            LET d == call.arg[i]
            IN  /\ (d \in Range(ret.hits)) <=> ~MatchTable[d].exact
                /\ (MatchTable[d].folded /\ ~MatchTable[d].exact) =>
                       d \in Range(ret.hits)

C17_Witness ==
    /\ call.fn = "Filter"
    /\ \E i \in 1..Len(call.arg) :
           /\ MatchTable[call.arg[i]].folded /\ ~MatchTable[call.arg[i]].exact
           /\ call.arg[i] \in Range(ret.hits)
    /\ DocUrlKeyword \in Range(ret.hits)
    /\ DocTitleDomain \in Range(call.arg) \ Range(ret.hits)

\* the address is a loopback address: 127.0.0.0/8, also IPv4-mapped, or ::1
LoopbackAddr(ip) ==
    IF To4(ip).ok THEN To4(ip).b[1] = 127 ELSE ip = <<0, 0, 0, 0, 0, 0, 0, 1>>

\* the address is in a private range: 10/8, 172.16/12, 192.168/16, also
\* IPv4-mapped, or the IPv6 unique local range fc00::/7
PrivateAddr(ip) ==
    IF To4(ip).ok
    THEN LET b == To4(ip).b
         IN  b[1] = 10 \/ (b[1] = 172 /\ b[2] \in 16..31) \/ (b[1] = 192 /\ b[2] = 168)
    ELSE ip[1] \div 512 = 126

\* the address is in the static range table: IPv4 first octet 1..100
InRangeTable(ip) == To4(ip).ok /\ To4(ip).b[1] \in 1..100

\* C18, as stated: every loopback address and every private-range address, in
\* IPv4 form and in IPv6 form, is classified restricted by IsChinaMainland.
C18_LocalIsRestricted ==
    call.fn = "IsChinaMainland" =>
        LET p == ParseIP(call.arg)
        IN  (p.ok /\ (LoopbackAddr(p.ip) \/ PrivateAddr(p.ip))) => ret = TRUE

\* C19: IsChinaMainland answers a boolean for every text; a text that is no
\* address, and a public address outside the range table, are classified other.
C19_TotalAndDefaultsToOther ==
    call.fn = "IsChinaMainland" =>
        LET p == ParseIP(call.arg)
        IN  /\ ret \in BOOLEAN
            /\ call.arg \in BadAddrs => (~p.ok /\ ret = FALSE)
            /\ ~p.ok => ret = FALSE
            /\ (p.ok /\ ~LoopbackAddr(p.ip) /\ ~PrivateAddr(p.ip) /\ ~InRangeTable(p.ip))
                   => ret = FALSE

C19_Witness ==
    /\ call.fn = "IsChinaMainland"
    /\ call.arg \in {"fe80::1%eth0", "203.0.0.1", "2001:db8::1", "0.0.0.1"}
    /\ ret = FALSE

\* the SearchResult the backend query of request r produced
Fetched(r) == [reqs[r].result EXCEPT !.hits = reqs[r].retrieved]

\* C20, as stated: two requests for one key that both miss each query the
\* backend and each start a write-back, and once both write-backs have written,
\* the cached value is the serialized result of one of the two fetches.
C20_LastWriteIsAFetch ==
    \A r, q \in Reqs :
        (/\ r # q /\ Accepted(r) /\ reqs[r].key = reqs[q].key
         /\ reqs[r].get = "nil" /\ reqs[q].get = "nil"
         /\ reqs[r].queried /\ reqs[r].err = ""
         /\ reqs[q].queried /\ reqs[q].err = "") =>
            /\ wb[r].st # "none" /\ wb[q].st # "none"
            /\ (wb[r].st = "set" /\ wb[q].st = "set" /\ HasKey(reqs[r].key)) =>
                   cache[reqs[r].key].val \in {Marshal(Fetched(r)), Marshal(Fetched(q))}

\* C21: the step in which the backend query of a miss succeeds hands the fetched
\* result to the handler, starts the one write-back of that request and leaves
\* the cache as it was; a request has a write-back exactly when its backend query
\* succeeded, and every entry a write-back wrote has a TTL of 5 minutes.
C21_MissReturnsBeforeWrite ==
    /\ [][\A r \in Reqs :
            (reqs[r].pc = "fetch" /\ reqs'[r].pc = "respond") =>
                /\ reqs'[r].result =
                       FetchResult(index, reqs[r].query, reqs[r].page, reqs[r].size)
                /\ wb[r].st = "none" /\ wb'[r].st = "spawned"
                /\ \A q \in Reqs \ {r} : wb'[q] = wb[q]
                /\ cache' = cache]_vars
    /\ [](\A r \in Reqs :
            wb[r].st # "none" <=> (reqs[r].queried /\ reqs[r].err = ""))
    /\ [](\A r \in Reqs :
            (wb[r].st = "set" /\ HasKey(reqs[r].key)
                 /\ cache[reqs[r].key].val = wb[r].data) =>
                cache[reqs[r].key].ttl = CacheTTLMinutes)

C21_Witness ==
    \E r \in Reqs :
        /\ Answered200(r) /\ reqs[r].queried
        /\ wb[r].st \in {"spawned", "marshalled"}
        /\ ~HasKey(reqs[r].key)

\* C22, as stated: the value a write-back marshals, and so the value it writes
\* to the cache, is the serialization of the result the backend query of its
\* request produced, with every hit the backend returned, whoever the caller is
\* and however the write-back interleaves with the handler.
C22_WritesUnmoderatedResult ==
    \A r \in Reqs :
        wb[r].st \in {"marshalled", "set", "failed"} =>
            wb[r].data = Marshal(Fetched(r))

\* C23: a request reads the cache only after its query was accepted, queries the
\* backend only after its cache read missed, and reaches moderation and a 200
\* response only with a cache hit or a successful backend response of its own;
\* nothing is answered before that, and the hits of the 200 response are the hits
\* this request retrieved, or what Filter keeps of them.
C23_StepsInOrder ==
    \A r \in Reqs :
        /\ reqs[r].get # "none" => Accepted(r)
        /\ reqs[r].queried => reqs[r].get \in {"nil", "down", "corrupt"}
        /\ reqs[r].pc \in {"cacheget", "fetch", "respond"} => reqs[r].resp = NoResp
        /\ (reqs[r].pc = "respond" \/ Answered200(r)) =>
               \/ reqs[r].get = "hit" /\ ~reqs[r].queried
               \/ /\ reqs[r].queried /\ reqs[r].err = ""
                  /\ <<reqs[r].key, reqs[r].retrieved>> \in returned
        /\ Answered200(r) =>
               reqs[r].resp.result.hits =
                   IF reqs[r].resp.filtered THEN Filter(reqs[r].retrieved).hits
                   ELSE reqs[r].retrieved

C23_Witness ==
    \E r, q \in Reqs :
        /\ Answered200(r) /\ reqs[r].get = "nil" /\ reqs[r].queried
        /\ reqs[r].resp.filtered
        /\ Answered200(q) /\ reqs[q].get = "hit" /\ reqs[q].resp.filtered

\* C24: a write-back goes on whether or not the context of its request is done:
\* a request whose backend query succeeded has its write-back also when it is
\* cancelled afterwards, and that write-back can marshal, write and fail as any
\* other; a request cancelled before the backend answered cannot get a result,
\* and one that failed with the cancellation is answered 500 and has no
\* write-back.
C24_WriteBackOutlivesRequest ==
    \A r \in Reqs :
        /\ (reqs[r].queried /\ reqs[r].err = "") => wb[r].st # "none"
        /\ (CtxDone(r) /\ wb[r].st = "spawned") => ENABLED WbMarshal(r)
        /\ (CtxDone(r) /\ wb[r].st = "marshalled") =>
               (ENABLED WbSet(r)) /\ (ENABLED WbSetFail(r))
        /\ (reqs[r].cancelled /\ reqs[r].pc = "fetch") => ~ENABLED BackendOk(r)
        /\ reqs[r].err = CtxCanceled =>
               /\ reqs[r].cancelled /\ wb[r].st = "none"
               /\ reqs[r].resp.status = 500

C24_Witness ==
    \E r, q \in Reqs :
        /\ reqs[r].cancelled /\ reqs[r].queried /\ reqs[r].err = "" /\ Done(r)
        /\ wb[r].st = "set" /\ HasKey(reqs[r].key)
        /\ cache[reqs[r].key].val = wb[r].data
        /\ reqs[q].get = "hit" /\ reqs[q].val = wb[r].data

\* Service.Search has returned to the handler
Returned(r) == Accepted(r) /\ reqs[r].pc \in {"respond", "done"}

\* what the store answered to the cache read of request r
Got(r) ==
    IF reqs[r].get \in {"hit", "corrupt"} THEN [err |-> "", val |-> reqs[r].val]
    ELSE [err |-> reqs[r].get, val |-> <<>>]

\* the same, with a value that does not deserialize taken for no value
GotReadable(r) ==
    IF reqs[r].get = "hit" THEN [err |-> "", val |-> reqs[r].val]
    ELSE [err |-> reqs[r].get, val |-> <<>>]

\* what the backend query, parse and suggestions of request r answered
FetchAnswer(r) == [err |-> reqs[r].err, data |-> Fetched(r)]

\* Search did for request r what GetOrSet does on the store answer got
SameAsGetOrSet(r, got) ==
    LET g == GetOrSet(got, FetchAnswer(r))
    IN  /\ g.fetched = reqs[r].queried
        /\ g.set = (wb[r].st # "none")
        /\ g.err = reqs[r].err
        /\ g.err = "" =>
               IF g.fetched THEN g.val = Fetched(r)
               ELSE Unmarshal(g.val) = [ok |-> TRUE, result |-> Fetched(r)]

\* C25, as stated: for every request and every answer of the store and the
\* backend, Search calls the backend, starts a write-back and returns what
\* GetOrSet does with the backend query as its fetch: the stored value on a hit,
\* one fetch and one write-back on a miss.
C25_SearchIsGetOrSet ==
    \A r \in Reqs : Returned(r) => SameAsGetOrSet(r, Got(r))

\* C25, amended: the same for every answer of the store that is an error or a
\* value that deserializes into a SearchResult, the value returned on a hit being
\* the stored value deserialized; on a stored value that does not deserialize
\* Search does what GetOrSet does on a miss.
C25_SearchIsGetOrSetOnReadable ==
    \A r \in Reqs : Returned(r) => SameAsGetOrSet(r, GotReadable(r))

C25_Witness ==
    \E r, q \in Reqs :
        /\ Returned(r) /\ reqs[r].get = "nil" /\ reqs[r].queried /\ wb[r].st = "set"
        /\ Returned(q) /\ reqs[q].get = "hit" /\ reqs[q].val = wb[r].data
        /\ Done(q)

\* C26: two requests have the same cache key exactly when their normalized
\* query, their page and their size are the same, also when the query holds the
\* separator ':' or digits.
C26_KeyIsInjective ==
    call.fn = "CacheKey" => (ret[1] = ret[2] <=> call.arg[1] = call.arg[2])

C26_Witness ==
    /\ call.fn = "CacheKey"
    /\ Contains(call.arg[1].query, ":1") /\ ~Contains(call.arg[2].query, ":")
    /\ call.arg[1].page # call.arg[2].page
    /\ Len(ret[1]) = Len(ret[2]) /\ ret[1] # ret[2]

\* C27, as stated: for every page and size that validatePagination returns, up
\* to the largest page an int holds, the offset of the backend query is the
\* product (page - 1) * size of the integers, is not negative, and the size of
\* the window is the given size.
C27_OffsetIsProduct ==
    call.fn = "QueryWindow" =>
        LET product == MulAdd(Dec(Int64Of(call.arg.page)), call.arg.size, 0)
        IN  /\ ret.size = call.arg.size
            /\ product = ret.from \o <<0>>
            /\ ~IsNegative(ret.from)

C29_CorruptEntryIsMiss ==
    \A r \in Reqs :
        reqs[r].get = "corrupt" =>
            /\ reqs[r].val = CorruptVal
            /\ reqs[r].pc \in {"fetch", "respond", "done"}
            /\ reqs[r].pc # "fetch" => reqs[r].queried
            /\ (reqs[r].pc # "fetch" /\ reqs[r].err = "") =>
                   /\ <<reqs[r].key, reqs[r].retrieved>> \in returned
                   /\ Fetched(r).total > 0
                   /\ wb[r].st # "none"
            /\ (Done(r) /\ reqs[r].err = "") => reqs[r].resp.status = 200
            /\ reqs[r].resp.status = 500 => reqs[r].err # ""
            /\ (wb[r].st = "set" /\ HasKey(reqs[r].key)) =>
                   cache[reqs[r].key].val # CorruptVal

C29_Witness ==
    \E r, q \in Reqs :
        /\ reqs[r].get = "corrupt" /\ Answered200(r)
        /\ Len(reqs[r].resp.result.hits) > 0
        /\ wb[r].st = "set"
        /\ reqs[q].get = "hit" /\ reqs[q].val = wb[r].data

====
